---------------------------- MODULE Spec2Model ----------------------------
(***************************************************************************)
(* The build cache of composably (src/src/lib/utils.ts, cache section) and *)
(* the page computation it wraps (ContentLoader.loadContent,               *)
(* src/src/lib/content.ts), as a state machine.                            *)
(*                                                                         *)
(* A page computation ("run") is the promise virtualPageSource builds: it  *)
(* parses the entry's source file, then runs the fragment pass, the        *)
(* validation pass and the virtual-unit pass.  Every await of the code is  *)
(* a point where other runs, requests and file-change events interleave.   *)
(* The Set objects currentSourceFiles and generatedVirtualComponents are   *)
(* shared by reference between a run's callbacks and the maps pageCache    *)
(* and entryToVirtualComponents; the model keeps them in the run record    *)
(* and lets the maps hold the run's identity.                              *)
(***************************************************************************)
EXTENDS Integers, Sequences, FiniteSets, TLC

\* ------------------------------------------------------------------ bounds
\* Total number of page computations started, and of file changes on disk.
MaxRuns == 2
MaxChanges == 2

\* -------------------------------------------------------------------- site
Entries == {"a", "b"}

MainFile(e) == IF e = "a" THEN "a.md" ELSE "b.md"
FragmentFile == "_g.yaml"
ComponentFile == "Page.svelte"
ContentFiles == {MainFile(e) : e \in Entries} \cup {FragmentFile}

\* Raw markdown texts, as sequences of UTF-16 code units ("a", "b").
TextA == <<97>>
TextB == <<98>>
Texts == {TextA, TextB}
OtherText(x) == IF x = TextA THEN TextB ELSE TextA

NoContent == <<>>

\* The sub-computations of one run: the parse of the entry's source file and
\* the callbacks of each pass.  Entry "a" references the fragment file from
\* two sibling records, entry "b" has no fragment reference; each entry has
\* one referenced unit (validated against Page.svelte) whose schema declares
\* one markdown field, filled from the entry's source file.
TaskIds == {"main", "f1", "f2", "v1", "u1"}
Stages == {"main", "fragments", "validation", "virtual"}

TasksOf(e, stage) ==
    CASE stage = "main" -> {"main"}
      [] stage = "fragments" -> IF e = "a" THEN {"f1", "f2"} ELSE {}
      [] stage = "validation" -> {"v1"}
      [] stage = "virtual" -> {"u1"}
      [] OTHER -> {}

FileTasks == {"main", "f1", "f2"}
FileOfTask(e, t) == IF t = "main" THEN MainFile(e) ELSE FragmentFile

\* ------------------------------------------------------- partial functions
Put(f, k, v) == [x \in DOMAIN f \cup {k} |-> IF x = k THEN v ELSE f[x]]
Without(f, ks) == [x \in DOMAIN f \ ks |-> f[x]]
Empty == [x \in {} |-> 0]

\* --------------------------------------------------------------- shortHash
\* hash = (hash << 5) - hash + str.charCodeAt(i), then (hash >>> 0) in
\* base 36, left-padded with "0000", last four characters.  A character of
\* the result is modelled by its digit value 0..35.
\*
\* << and >>> read the low 32 bits of hash; the subtraction and the addition
\* between two shifts are exact, so hash is kept by those 32 bits, as its
\* two 16-bit halves <<high, low>>.
Half == 65536

\* hash << 5
ShiftLeft5(h) ==
    LET low == h[2] * 32 IN
    <<(h[1] * 32 + low \div Half) % Half, low % Half>>

\* a - b
Minus(a, b) ==
    LET low == a[2] - b[2]
        borrow == IF low < 0 THEN 1 ELSE 0 IN
    <<(a[1] - b[1] - borrow + Half) % Half, (low + Half) % Half>>

\* a + str.charCodeAt(i)
Plus(a, code) ==
    LET low == a[2] + code IN
    <<(a[1] + low \div Half) % Half, low % Half>>

RECURSIVE HashFrom(_, _, _)
HashFrom(hash, str, i) ==
    IF i > Len(str) THEN hash
    ELSE HashFrom(Plus(Minus(ShiftLeft5(hash), hash), str[i]), str, i + 1)

\* (n).toString(36) of an unsigned 32-bit number: its digits by division.
RECURSIVE ToBase36(_)
ToBase36(n) ==
    LET rest == (n[1] % 36) * Half + n[2]
        quotient == <<n[1] \div 36, rest \div 36>> IN
    IF quotient = <<0, 0>> THEN <<rest % 36>>
    ELSE Append(ToBase36(quotient), rest % 36)

\* A slice that keeps the first four characters.
FirstFour(s) == SubSeq(s, 1, 4)

\* slice(-4)
LastFour(s) == SubSeq(s, Len(s) - 3, Len(s))

shortHash(str) ==
    LastFour(<<0, 0, 0, 0>> \o ToBase36(HashFrom(<<0, 0>>, str, 1)))

\* composablyTypes.markdown: prepare(val)
VirtualComponentId(val) == <<"composably:component/", shortHash(val)>>

\* ------------------------------------------------------------------- state
VARIABLES
    fs,                       \* content of each content file on disk
    events,                   \* changed files whose watcher event is pending
    changes,                  \* number of file changes so far
    runs,                     \* entry -> the page computations started for it
    pageCache,                \* entry -> run (promise; sourceFiles is the run's)
    virtualComponentCache,    \* unit id -> [data, sourceEntryPath]
    fileToContentEntries,     \* file -> set of entries
    entryToVirtualComponents, \* entry -> run whose unit set it references
    last,                     \* the last operation and what it returned
    resolution,               \* one fragment pass: its input and its result
    lookup,                   \* the files of one site path and a call on them
    listing,                  \* the content root, its list module and a call
    validation,               \* one validation pass: its input and its result
    tracking,                 \* the files entries depend on, by path key
    traversal,                \* one traversal of a tree: its input and result
    chain,                    \* a fragment resolution, one file at a time
    hashing,                  \* one call of shortHash: its input and result
    reloading                 \* one change event: the caches, the host's
                              \* module graph and what is handed back

\* The state of the loader's functions when they are studied on their own;
\* the cache machine leaves it alone.
aside == <<resolution, lookup, listing, validation, tracking,
                 traversal, chain, hashing, reloading>>

cacheVars == <<fs, events, changes, runs, pageCache, virtualComponentCache,
               fileToContentEntries, entryToVirtualComponents, last>>

vars == <<cacheVars, aside>>

Unused == [done |-> FALSE]

RunIds(e) == 1..Len(runs[e])
Started == Len(runs["a"]) + Len(runs["b"])

Idle == [op |-> "step", key |-> "", run |-> 0, hit |-> FALSE, error |-> "none",
         deps |-> {}, entries |-> {}, vcs |-> {}]

NewRun(e) ==
    [entry |-> e,
     stage |-> "main",
     status |-> [t \in TaskIds |-> IF t = "main" THEN "called" ELSE "idle"],
     read |-> [t \in FileTasks |-> NoContent],
     currentSourceFiles |-> {},
     generatedVirtualComponents |-> {},
     passes |-> <<>>,
     intact |-> TRUE]

Pending(run) == run.stage \in Stages
Resolved(run) == run.stage = "resolved"
Rejected(run) == run.stage = "rejected"

\* What of a computation can still be observed.  After the catch handler
\* ran, nothing reads the run's Set objects or its parsed content again;
\* only sub-computations that were pending when it rejected go on.  A
\* resolved promise that no map references is unreachable.
Observable(run, cached) ==
    CASE Rejected(run) ->
           [NewRun(run.entry) EXCEPT
               !.stage = "rejected",
               !.status = [t \in TaskIds |->
                              IF run.status[t] \in {"called", "read"}
                              THEN run.status[t] ELSE "idle"],
               !.intact = FALSE]
      [] Resolved(run) /\ cached ->
           [run EXCEPT !.currentSourceFiles = {}, !.intact = FALSE]
      [] Resolved(run) /\ ~cached ->
           [NewRun(run.entry) EXCEPT
               !.stage = "resolved", !.status = run.status,
               !.passes = run.passes, !.intact = FALSE]
      [] OTHER -> run

Commit(rs, pc, cache, edges, units, l) ==
    /\ runs' = [e \in Entries |->
                  [k \in 1..Len(rs[e]) |->
                      Observable(rs[e][k], e \in DOMAIN pc /\ pc[e] = k)]]
    /\ pageCache' = pc
    /\ virtualComponentCache' = cache
    /\ fileToContentEntries' = edges
    /\ entryToVirtualComponents' = units
    /\ last' = l
    /\ UNCHANGED aside

Init ==
    /\ fs = [f \in ContentFiles |-> TextA]
    /\ events = {}
    /\ changes = 0
    /\ runs = [e \in Entries |-> <<>>]
    /\ pageCache = Empty
    /\ virtualComponentCache = Empty
    /\ fileToContentEntries = Empty
    /\ entryToVirtualComponents = Empty
    /\ last = Idle
    /\ resolution = Unused
    /\ lookup = Unused
    /\ listing = Unused
    /\ validation = Unused
    /\ tracking = Unused
    /\ traversal = Unused
    /\ chain = Unused
    /\ hashing = Unused
    /\ reloading = Unused

\* -------------------------------------------------------- virtualPageSource
\* A lookup that never finds the entry: every request is treated as a miss.
PageCacheNever(e) == FALSE

PageCacheHas(e) == e \in DOMAIN pageCache

\* A cache hit returns the cached promise; a miss starts loadContent, which
\* runs synchronously up to its first await (the read of the source file),
\* and registers the pending promise and the two fresh Set objects.
virtualPageSource(e) ==
    /\ IF PageCacheHas(e)
       THEN Commit(runs, pageCache, virtualComponentCache,
                   fileToContentEntries, entryToVirtualComponents,
                   [Idle EXCEPT !.op = "request", !.key = e,
                                !.run = pageCache[e], !.hit = TRUE])
       ELSE /\ Started < MaxRuns
            /\ Commit([runs EXCEPT ![e] = Append(@, NewRun(e))],
                      Put(pageCache, e, Len(runs[e]) + 1),
                      virtualComponentCache, fileToContentEntries,
                      Put(entryToVirtualComponents, e, Len(runs[e]) + 1),
                      [Idle EXCEPT !.op = "request", !.key = e,
                                   !.run = Len(runs[e]) + 1])
    /\ UNCHANGED <<fs, events, changes>>

\* ----------------------------------------------------- callbacks of a run
\* File Dependency Callback: the edge is added, and the file is added to
\* currentSourceFiles, only when the entry is not yet in the file's set.
HasEdge(e, f) ==
    f \in DOMAIN fileToContentEntries /\ e \in fileToContentEntries[f]

EdgesAfterReport(e, f) ==
    IF f \in DOMAIN fileToContentEntries
    THEN [fileToContentEntries EXCEPT ![f] = @ \cup {e}]
    ELSE Put(fileToContentEntries, f, {e})

SourceFilesAfterReport(run, f) ==
    IF HasEdge(run.entry, f) THEN run.currentSourceFiles
    ELSE run.currentSourceFiles \cup {f}

\* Virtual Component Callback.
CacheAfterReport(run, unit) ==
    Put(virtualComponentCache, unit.component,
        [data |-> unit, sourceEntryPath |-> run.entry])

\* ------------------------------------------------------------ loadContent
\* A pass that returns as soon as one of its sub-computations completed.
PassTouched(run, stage) ==
    \E t \in TasksOf(run.entry, stage) : run.status[t] = "done"

PassSettled(run, stage) ==
    \A t \in TasksOf(run.entry, stage) : run.status[t] = "done"

\* A loader whose fragment pass is followed directly by the virtual pass.
NextStageSkipping(stage) ==
    CASE stage = "main" -> "fragments"
      [] stage = "fragments" -> "virtual"
      [] OTHER -> "resolved"

NextStage(stage) ==
    CASE stage = "main" -> "fragments"
      [] stage = "fragments" -> "validation"
      [] stage = "validation" -> "virtual"
      [] OTHER -> "resolved"

\* The await of a pass returns: the next pass calls its callbacks (a pass
\* that finds no matching record returns at once), or, after the third
\* pass, the promise resolves.
RECURSIVE Advance(_)
Advance(run) ==
    LET nxt == NextStage(run.stage)
        moved == [run EXCEPT
            !.stage = nxt,
            !.passes = IF run.stage = "main" THEN @ ELSE Append(@, run.stage),
            !.status = [t \in TaskIds |->
                           IF t \in TasksOf(run.entry, nxt) THEN "called"
                           ELSE @[t]]] IN
    IF nxt \in Stages /\ TasksOf(run.entry, nxt) = {} THEN Advance(moved)
    ELSE moved

\* A sub-computation completes.  Its pass is over when all of them have
\* (Promise.all); after a rejection the remaining ones still complete but
\* nothing awaits them.
Completed(run, t) ==
    LET done == [run EXCEPT !.status[t] = "done"] IN
    IF Pending(done) /\ PassSettled(done, done.stage)
    THEN Advance(done) ELSE done

\* The catch handler of virtualPageSource.
\* A catch handler that leaves the rejected promise in the page cache.
FailedPageKept(e) == pageCache

RollbackPageCache(e) == Without(pageCache, {e})

RollbackEdges(run) ==
    [f \in DOMAIN fileToContentEntries |->
        IF f \in run.currentSourceFiles
        THEN fileToContentEntries[f] \ {run.entry}
        ELSE fileToContentEntries[f]]

RollbackUnits(run) ==
    Without(virtualComponentCache, run.generatedVirtualComponents)

\* A sub-computation of run k of entry e throws.  The first throw of a run
\* rejects the promise, and the rejection reaches the catch handler before
\* any other callback runs; a later throw of the same run is not awaited.
Fail(e, k, t) ==
    LET run == runs[e][k] IN
    IF Pending(run)
    THEN Commit([runs EXCEPT ![e] =
                    [i \in RunIds(e) |->
                        IF i = k
                        THEN [run EXCEPT !.status[t] = "failed",
                                         !.stage = "rejected"]
                        ELSE [runs[e][i] EXCEPT !.intact = FALSE]]],
                RollbackPageCache(e), RollbackUnits(run), RollbackEdges(run),
                Without(entryToVirtualComponents, {e}),
                [Idle EXCEPT !.op = "reject", !.key = e, !.run = k,
                             !.error = run.stage,
                             !.vcs = run.generatedVirtualComponents])
    ELSE Commit([runs EXCEPT ![e][k].status[t] = "failed"],
                pageCache, virtualComponentCache, fileToContentEntries,
                entryToVirtualComponents, Idle)

\* fs.readFile / import() delivers the content of the file.
ReadFile(e, k, t) ==
    /\ runs[e][k].status[t] = "called"
    /\ Commit([runs EXCEPT ![e][k].status[t] = "read",
                           ![e][k].read[t] = fs[FileOfTask(e, t)]],
              pageCache, virtualComponentCache, fileToContentEntries,
              entryToVirtualComponents, Idle)
    /\ UNCHANGED <<fs, events, changes>>

\* parseFileContent resumes: it parses what was read and reports the file,
\* or throws (file absent, malformed content) and reports nothing.
ParseFileContent(e, k, t, ok) ==
    LET run == runs[e][k]
        f == FileOfTask(e, t) IN
    /\ run.status[t] = "read"
    /\ IF ok
       THEN Commit([runs EXCEPT ![e][k] =
                       Completed([run EXCEPT !.currentSourceFiles =
                                      SourceFilesAfterReport(run, f)], t)],
                   pageCache, virtualComponentCache, EdgesAfterReport(e, f),
                   entryToVirtualComponents, Idle)
       ELSE Fail(e, k, t)
    /\ UNCHANGED <<fs, events, changes>>

\* colocate: the renderer's schema is read and applied; on success the
\* renderer file is reported, on a validation failure it throws.
ProcessComponentValidation(e, k, t, ok) ==
    LET run == runs[e][k] IN
    /\ run.status[t] = "called"
    /\ IF ok
       THEN Commit([runs EXCEPT ![e][k] =
                       Completed([run EXCEPT !.currentSourceFiles =
                                      SourceFilesAfterReport(run, ComponentFile)],
                                 t)],
                   pageCache, virtualComponentCache,
                   EdgesAfterReport(e, ComponentFile),
                   entryToVirtualComponents, Idle)
       ELSE Fail(e, k, t)
    /\ UNCHANGED <<fs, events, changes>>

\* processVirtualComponent: the markup pipeline renders the raw text, then
\* the Virtual Component Callback registers the finished unit.
UnitOf(run) ==
    [component |-> VirtualComponentId(run.read["main"]),
     html |-> run.read["main"]]

ProcessVirtualComponent(e, k, t, ok) ==
    LET run == runs[e][k]
        unit == UnitOf(run) IN
    /\ run.status[t] = "called"
    /\ IF ok
       THEN Commit([runs EXCEPT ![e][k] =
                       Completed([run EXCEPT !.generatedVirtualComponents =
                                      @ \cup {unit.component}], t)],
                   pageCache, CacheAfterReport(run, unit),
                   fileToContentEntries, entryToVirtualComponents, Idle)
       ELSE Fail(e, k, t)
    /\ UNCHANGED <<fs, events, changes>>

\* ------------------------------------------------------------ file changes
\* A content file is rewritten on disk; the watcher will deliver the event.
Change(f) ==
    /\ changes < MaxChanges
    /\ fs' = [fs EXCEPT ![f] = OtherText(@)]
    /\ events' = events \cup {f}
    /\ changes' = changes + 1
    /\ Commit(runs, pageCache, virtualComponentCache, fileToContentEntries,
              entryToVirtualComponents, Idle)

\* ------------------------------------------- invalidateAndGetAffectedItems
EntriesDependingOn(f) ==
    IF f \in DOMAIN fileToContentEntries THEN fileToContentEntries[f] ELSE {}

\* The unit ids that entryToVirtualComponents lists for the entries es.
UnitsListedFor(es) ==
    UNION {runs[e][entryToVirtualComponents[e]].generatedVirtualComponents :
              e \in es \cap DOMAIN entryToVirtualComponents}

\* An invalidation that leaves the page cache as it is.
KeptPageCache(f) == pageCache

InvalidatedPageCache(f) == Without(pageCache, EntriesDependingOn(f))

InvalidatedUnits(f) ==
    Without(virtualComponentCache, UnitsListedFor(EntriesDependingOn(f)))

\* An invalidation that leaves the key of the changed file in the graph.
KeptEdges(f) == fileToContentEntries

InvalidatedEdges(f) ==
    IF EntriesDependingOn(f) # {} THEN Without(fileToContentEntries, {f})
    ELSE fileToContentEntries

invalidateAndGetAffectedItems(f) ==
    LET es == EntriesDependingOn(f) IN
    Commit([e \in Entries |->
               [k \in RunIds(e) |->
                   IF e \in es THEN [runs[e][k] EXCEPT !.intact = FALSE]
                   ELSE runs[e][k]]],
           InvalidatedPageCache(f), InvalidatedUnits(f), InvalidatedEdges(f),
           Without(entryToVirtualComponents, es),
           [Idle EXCEPT
               !.op = "invalidate", !.key = f, !.deps = es,
               !.entries = es \cap DOMAIN pageCache,
               !.vcs = UnitsListedFor(es) \cap DOMAIN virtualComponentCache])

\* handleHotUpdate -> getModulesToReload: the change event of f is handled.
HandleHotUpdate(f) ==
    /\ f \in events
    /\ events' = events \ {f}
    /\ invalidateAndGetAffectedItems(f)
    /\ UNCHANGED <<fs, changes>>

\* -------------------------------------------------------------------- Next
Request == \E e \in Entries : virtualPageSource(e)
Read == \E e \in Entries : \E k \in RunIds(e), t \in FileTasks :
            ReadFile(e, k, t)
Parse == \E e \in Entries : \E k \in RunIds(e), t \in FileTasks, ok \in BOOLEAN :
             ParseFileContent(e, k, t, ok)
Validate == \E e \in Entries : \E k \in RunIds(e), ok \in BOOLEAN :
                \E t \in TasksOf(e, "validation") :
                    ProcessComponentValidation(e, k, t, ok)
Virtual == \E e \in Entries : \E k \in RunIds(e), ok \in BOOLEAN :
               \E t \in TasksOf(e, "virtual") :
                   ProcessVirtualComponent(e, k, t, ok)
FileChange == \E f \in ContentFiles : Change(f)
HotUpdate == \E f \in ContentFiles : HandleHotUpdate(f)

Next ==
    \/ Request
    \/ Read
    \/ Parse
    \/ Validate
    \/ Virtual
    \/ FileChange
    \/ HotUpdate

Spec == Init /\ [][Next]_vars

TypeOK ==
    /\ DOMAIN pageCache \subseteq Entries
    /\ \A e \in DOMAIN pageCache : pageCache[e] \in RunIds(e)
    /\ DOMAIN entryToVirtualComponents = DOMAIN pageCache
    /\ \A e \in DOMAIN pageCache : entryToVirtualComponents[e] = pageCache[e]
    /\ changes \in 0..MaxChanges
    /\ Started <= MaxRuns
\* ------------------------------------------------------------------ claims
RunOf(e) == runs[e][pageCache[e]]
AllPasses == <<"fragments", "validation", "virtual">>
FilesReadBy(e) ==
    {"main"} \cup (TasksOf(e, "fragments") \cap FileTasks)

\* C1: a request for entry A made while an earlier computation of A is
\* pending, with no failure and no eviction of A in between, starts no new
\* run: the caller receives that pending computation (hence the same
\* result) and the sources of A are not parsed a second time.
C1_PendingShared ==
    [][\A e \in Entries : \A k \in RunIds(e) :
          (/\ Pending(runs[e][k])
           /\ runs[e][k].intact
           /\ last'.op = "request"
           /\ last'.key = e)
          => (/\ last'.hit
              /\ last'.run = k
              /\ Len(runs'[e]) = Len(runs[e])
              /\ runs'[e][k] = runs[e][k])]_vars

C1_Witness ==
    /\ last.op = "request"
    /\ last.hit
    /\ Pending(runs[last.key][last.run])
    /\ runs[last.key][last.run].intact

\* C2: for each entry at most one page computation has started and not yet
\* settled.
C2_SingleFlight ==
    \A e \in Entries :
        Cardinality({k \in RunIds(e) : Pending(runs[e][k])}) <= 1

\* C3: when the computation of entry A fails, at the moment of the rejection
\* the page cache has no entry for A, A is in no file->entries set, the
\* entry->units map has no key A, and no unit the computation registered
\* remains in the unit cache.
C3_RollbackLeavesNoTrace ==
    last.op = "reject" =>
        /\ last.key \notin DOMAIN pageCache
        /\ \A f \in DOMAIN fileToContentEntries :
               last.key \notin fileToContentEntries[f]
        /\ last.key \notin DOMAIN entryToVirtualComponents
        /\ last.vcs \cap DOMAIN virtualComponentCache = {}

\* C4: when invalidateAndGetAffectedItems(F) returns, every entry that had F
\* recorded has lost its page cache entry, its entry->units record, every
\* unit it produced and every dependency edge naming it, from F and from
\* every other file.
C4_InvalidateRemovesAll ==
    last.op = "invalidate" =>
        \A e \in last.deps :
            /\ e \notin DOMAIN pageCache
            /\ e \notin DOMAIN entryToVirtualComponents
            /\ \A id \in DOMAIN virtualComponentCache :
                   virtualComponentCache[id].sourceEntryPath # e
            /\ \A f \in DOMAIN fileToContentEntries :
                   e \notin fileToContentEntries[f]
\* C5: invalidateAndGetAffectedItems(F) removes the page cache entry of
\* every entry that reported F and the unit cache entries of every unit
\* those entries produced, and returns exactly the entry paths and the unit
\* ids it removed.
C5_InvalidateReturnsRemoved ==
    [][last'.op = "invalidate" =>
          /\ last'.deps \cap DOMAIN pageCache' = {}
          /\ \A id \in DOMAIN virtualComponentCache' :
                 virtualComponentCache'[id].sourceEntryPath \notin last'.deps
          /\ last'.entries = DOMAIN pageCache \ DOMAIN pageCache'
          /\ last'.vcs = DOMAIN virtualComponentCache \
                             DOMAIN virtualComponentCache']_vars

C7_NoStalePage ==
    events = {} =>
        \A e \in DOMAIN pageCache :
            Resolved(RunOf(e)) =>
                \A t \in FilesReadBy(e) :
                    RunOf(e).read[t] = fs[FileOfTask(e, t)]

\* C8: a computation that resolved ran all three passes, the page cache
\* holds no rejected computation, and when a computation rejects (with the
\* error of the pass that failed) its entry is absent from the page cache.
C8_NoPartialPage ==
    /\ \A e \in Entries : \A k \in RunIds(e) :
           Resolved(runs[e][k]) => runs[e][k].passes = AllPasses
    /\ \A e \in DOMAIN pageCache : ~Rejected(RunOf(e))
    /\ last.op = "reject" =>
           /\ last.key \notin DOMAIN pageCache
           /\ last.error \in Stages

C8_Witness ==
    /\ \E e \in DOMAIN pageCache : Resolved(RunOf(e))
    /\ last.op = "reject"

\* C9: within one run no validator call happens before every fragment
\* sub-computation has completed, and no virtual unit is processed or
\* reported before every validator call has completed; the passes complete
\* in the order fragments, validation, virtual.
C9_PassOrder ==
    \A e \in Entries : \A k \in RunIds(e) :
        LET run == runs[e][k] IN
        /\ (\E t \in TasksOf(e, "validation") : run.status[t] # "idle")
               => \A t \in TasksOf(e, "fragments") : run.status[t] = "done"
        /\ ((\E t \in TasksOf(e, "virtual") : run.status[t] # "idle")
              \/ run.generatedVirtualComponents # {})
               => \A t \in TasksOf(e, "fragments") \cup
                            TasksOf(e, "validation") : run.status[t] = "done"
        /\ \E n \in 0..3 : run.passes = SubSeq(AllPasses, 1, n)

C9_Witness ==
    \E k \in RunIds("a") :
        /\ runs["a"][k].status["u1"] = "called"
        /\ runs["a"][k].passes = <<"fragments", "validation">>

\* C10: identical raw texts get the same unit id, and when every entry
\* whose source holds a text is loaded, the unit cache holds the entry of
\* that id.
Loaded(e, x) ==
    /\ e \in DOMAIN pageCache
    /\ Resolved(RunOf(e))
    /\ RunOf(e).read["main"] = x
    /\ UnitOf(RunOf(e)).component = VirtualComponentId(x)

C10_OneUnitPerText ==
    \A x \in Texts :
        LET holders == {e \in Entries : fs[MainFile(e)] = x} IN
        (holders # {} /\ \A e \in holders : Loaded(e, x))
            => VirtualComponentId(x) \in DOMAIN virtualComponentCache
\* The cache before any request.
CacheUnused ==
    /\ fs = [f \in ContentFiles |-> TextA]
    /\ events = {}
    /\ changes = 0
    /\ runs = [e \in Entries |-> <<>>]
    /\ pageCache = Empty
    /\ virtualComponentCache = Empty
    /\ fileToContentEntries = Empty
    /\ entryToVirtualComponents = Empty
    /\ last = Idle

\* ------------------------------------------------------ fragment resolution
\* Values of a parsed content tree: strings, records (key -> value) and the
\* undefined that an empty fragment file parses to.  A key is the sequence
\* of its characters, so that startsWith('_') and slice(1) act on it.
Str(s) == [kind |-> "string", s |-> s]
Obj(r) == [kind |-> "object", o |-> r]
Undefined == [kind |-> "undefined"]

RootKey == <<"_">>
NamedKey == <<"_", "x">>
PlainKeys == {<<"x">>, <<"f">>}

\* Fragment files, lowest first: a file references only lower files.
FragmentFiles == <<"a.yaml", "b.yaml">>

\* toAbsolutePath: path.resolve(root, path.join(contentRoot, localPath)).
toAbsolutePath(localPath) == <<"/site", "content", localPath>>

\* The records over the keys _, _x, x, f whose references name a file in
\* targets.
RecordsReferencing(targets) ==
    LET Choices(k) ==
            CASE k = RootKey -> {Str(p) : p \in targets}
              [] k = NamedKey -> {Str(p) : p \in targets}
              [] k = <<"x">> -> {Str("own")}
              [] OTHER -> {Str("bar")}
        Keys == {RootKey, NamedKey} \cup PlainKeys IN
    UNION {[D -> UNION {Choices(k) : k \in D}] : D \in SUBSET Keys}

WellFormed(r) ==
    \A k \in DOMAIN r :
        CASE k \in {RootKey, NamedKey} -> r[k].s \notin {"own", "bar"}
          [] k = <<"x">> -> r[k].s = "own"
          [] OTHER -> r[k].s = "bar"

Records(targets) == {r \in RecordsReferencing(targets) : WellFormed(r)}

\* The content of the fragment file p (yaml.load of its text).
Parsed(files, p) == files[p]

\* { ...under, ...over }
Spread(under, over) ==
    [k \in DOMAIN under \cup DOMAIN over |->
        IF k \in DOMAIN over THEN over[k] ELSE under[k]]

\* Spreading a value: a record gives its fields, undefined gives none.
Fields(v) == IF v.kind = "object" THEN v.o ELSE [k \in {} |-> Undefined]

HasRootReference(r) == RootKey \in DOMAIN r /\ r[RootKey].kind = "string"

\* currentResult after the root reference has been merged.
AfterRoot(files, r) ==
    IF HasRootReference(r)
    THEN Spread(Fields(Parsed(files, r[RootKey].s)), Without(r, {RootKey}))
    ELSE r

\* The keys the loop over Object.keys(currentResult) treats as references.
NamedReferences(cur) ==
    {k \in DOMAIN cur : k[1] = "_" /\ Len(k) > 1 /\ cur[k].kind = "string"}

loadAndAttachFragments(files, r) ==
    LET cur == AfterRoot(files, r)
        named == NamedReferences(cur)
        processedFragments ==
            [n \in {Tail(k) : k \in named} |->
                Parsed(files, cur[<<"_">> \o n].s)] IN
    Spread(processedFragments, Without(cur, named))

\* The filter of the fragment pass.
HasUnderscoreKey(r) == \E k \in DOMAIN r : k[1] = "_"

\* contentTraverser: the callback on a record the filter accepts, then the
\* traversal of every field of the callback's result that is a record.
Visited(files, r) ==
    IF HasUnderscoreKey(r) THEN loadAndAttachFragments(files, r) ELSE r

RECURSIVE contentTraverser(_, _)
contentTraverser(files, v) ==
    IF v.kind # "object" THEN v
    ELSE LET newObj == Visited(files, v.o) IN
         Obj([k \in DOMAIN newObj |->
                 IF newObj[k].kind = "object"
                 THEN contentTraverser(files, newObj[k])
                 ELSE newObj[k]])

\* parseFileContent calls made for file p by one call of
\* loadAndAttachFragments; each successful call reports p once.
ParseCalls(files, r, p) ==
    LET cur == AfterRoot(files, r) IN
    (IF HasRootReference(r) /\ r[RootKey].s = p THEN 1 ELSE 0)
      + Cardinality({k \in NamedReferences(cur) : cur[k].s = p})

\* reportFileDependency calls with the path of p during the traversal of v
\* (Reported), and during the traversal of the fields ks of newObj.
RECURSIVE Reported(_, _, _)
RECURSIVE ReportedBelow(_, _, _, _)
ReportedBelow(files, newObj, ks, p) ==
    IF ks = {} THEN 0
    ELSE LET k == CHOOSE x \in ks : TRUE IN
         (IF newObj[k].kind = "object"
          THEN Reported(files, newObj[k], p) ELSE 0)
           + ReportedBelow(files, newObj, ks \ {k}, p)

Reported(files, v, p) ==
    IF v.kind # "object" THEN 0
    ELSE (IF HasUnderscoreKey(v.o) THEN ParseCalls(files, v.o, p) ELSE 0)
           + ReportedBelow(files, Visited(files, v.o),
                           DOMAIN Visited(files, v.o), p)

FileContents ==
    {files \in [{FragmentFiles[1], FragmentFiles[2]} ->
                   {Undefined} \cup {Obj(r) : r \in Records({FragmentFiles[1]})}] :
        /\ files[FragmentFiles[1]].kind = "object"
             => DOMAIN files[FragmentFiles[1]].o \subseteq PlainKeys}

ResolutionInit ==
    /\ resolution \in
         {[done |-> FALSE, files |-> files, obj |-> Obj(r)] :
             files \in FileContents,
             r \in Records({FragmentFiles[1], FragmentFiles[2]})}
    /\ CacheUnused
    /\ lookup = Unused
    /\ listing = Unused
    /\ validation = Unused
    /\ tracking = Unused
    /\ traversal = Unused
    /\ chain = Unused
    /\ hashing = Unused
    /\ reloading = Unused

\* The fragment pass of loadContent over the tree.
ResolveFragments ==
    /\ ~resolution.done
    /\ resolution' =
         [done |-> TRUE, files |-> resolution.files, obj |-> resolution.obj,
          out |-> contentTraverser(resolution.files, resolution.obj),
          reports |-> [q \in {toAbsolutePath(p) : p \in DOMAIN resolution.files} |->
                          Reported(resolution.files, resolution.obj, q[3])]]
    /\ UNCHANGED <<cacheVars, lookup, listing, validation, tracking,
                 traversal, chain, hashing, reloading>>

ResolutionSpec == ResolutionInit /\ [][ResolveFragments]_vars
\* C11: resolving a record with a root reference `_` gives a record without
\* key `_` that holds every plain field of the parsed fragment file and every
\* plain field of the referencing record, the referencing record's value
\* winning for a key of both.
C11_RootMerge ==
    (resolution.done /\ HasRootReference(resolution.obj.o)) =>
        LET r == resolution.obj.o
            fragment == Fields(Parsed(resolution.files, r[RootKey].s))
            out == resolution.out.o IN
        /\ RootKey \notin DOMAIN out
        /\ \A k \in PlainKeys \cap DOMAIN r : k \in DOMAIN out /\ out[k] = r[k]
        /\ \A k \in (PlainKeys \cap DOMAIN fragment) \ DOMAIN r :
               k \in DOMAIN out /\ out[k] = fragment[k]

\* C12: resolving a record with a named reference `_x` removes the key `_x`,
\* and the property `x` of the result holds the (resolved) content of the
\* referenced file, whatever other keys the record has.
C12_NamedAttach ==
    (resolution.done /\ NamedKey \in DOMAIN resolution.obj.o) =>
        LET r == resolution.obj.o
            out == resolution.out.o IN
        /\ NamedKey \notin DOMAIN out
        /\ Tail(NamedKey) \in DOMAIN out
        /\ out[Tail(NamedKey)] =
               contentTraverser(resolution.files,
                                Parsed(resolution.files, r[NamedKey].s))

\* The occurrences of references to file p in the tree v, the content of
\* every referenced file included.
RECURSIVE Occurrences(_, _, _)
RECURSIVE OccurrencesBelow(_, _, _, _)
OccurrencesBelow(files, r, ks, p) ==
    IF ks = {} THEN 0
    ELSE LET k == CHOOSE x \in ks : TRUE
             here == CASE r[k].kind = "object" -> Occurrences(files, r[k], p)
                       [] r[k].kind = "string" /\ k[1] = "_" ->
                            (IF r[k].s = p THEN 1 ELSE 0)
                              + Occurrences(files, Parsed(files, r[k].s), p)
                       [] OTHER -> 0 IN
         here + OccurrencesBelow(files, r, ks \ {k}, p)

Occurrences(files, v, p) ==
    IF v.kind # "object" THEN 0
    ELSE OccurrencesBelow(files, v.o, DOMAIN v.o, p)

\* C13: the fragment pass reports each file once per occurrence of a
\* reference to it: one report for a reference to a file without references,
\* two when the referenced file contains one reference itself.
C13_OneReportPerReference ==
    resolution.done =>
        \A p \in DOMAIN resolution.files :
            resolution.reports[toAbsolutePath(p)] =
                Occurrences(resolution.files, resolution.obj, p)

\* A record of the tree v still has a key `_` or `_name` with a string value.
RECURSIVE StillReferences(_)
StillReferences(v) ==
    /\ v.kind = "object"
    /\ \E k \in DOMAIN v.o :
           \/ k[1] = "_" /\ v.o[k].kind = "string"
           \/ StillReferences(v.o[k])

\* C14: when the fragment pass has completed, no record of the result still
\* has a key `_` or `_name` with a string path value.
C14_NoReferenceLeft ==
    resolution.done => ~StillReferences(resolution.out)
\* ------------------------------------------------- locating a content file
filetypes == <<"js", "ts", "json", "yaml", "yml", "md">>

\* File names and site paths are sequences of characters.
Quote == "'"
IndexName == <<"i", "n", "d", "e", "x">>
PageName == <<"p", "a", "g", "e">>
PartName == <<"_", "p", "a", "r", "t">>
QuotedName == <<"i", "t", Quote, "s">>
DataName == <<"d", "a", "t", "a">>
NestedPartName == <<"d", "/", "_", "p">>
UnderDirName == <<"_", "d", "/", "p">>
RootPath == <<>>

indexFile == IndexName

Range(seq) == {seq[i] : i \in 1..Len(seq)}

\* A variant that recognizes every extension.
RecognizedAlways(ext) == TRUE

\* filetypes.includes(fileExt.slice(1))
Recognized(ext) == ext \in Range(filetypes)

IsScript(ext) == ext \in {"js", "ts"}

\* The file names (without extension) of the content root, and the site
\* paths a caller may ask for.
BaseNames == {IndexName, PageName, PartName, NestedPartName, UnderDirName}
LocalPaths == {RootPath} \cup BaseNames

\* path.basename: what follows the last separator.
RECURSIVE basename(_)
basename(name) ==
    IF \E i \in 1..Len(name) : name[i] = "/" THEN basename(Tail(name))
    ELSE name

\* A variant for which no name starts with an underscore.
StartsWithUnderscoreNever(name) == FALSE

\* path.basename(filePath)[0] === '_'
StartsWithUnderscore(name) == basename(name) # <<>> /\ basename(name)[1] = "_"

\* What a file of the content root can be.  A script either is absent, or
\* exports a value ("module"), or exports a function that reports a
\* dependency of its own and then returns the fragment ("callable") or
\* throws ("callableThrows"), or exists but imports a module that is
\* missing, so that import() fails with ERR_MODULE_NOT_FOUND
\* ("brokenImport"), or fails to load with another error ("importThrows").
FileStates(ext) ==
    CASE IsScript(ext) -> {"absent", "module", "callable", "callableThrows",
                           "brokenImport", "importThrows"}
      [] Recognized(ext) -> {"absent", "ok", "malformed"}
      [] OTHER -> {"absent", "ok"}

Extensions == Range(filetypes) \cup {"exe"}

\* `${toAbsolutePath(localPath, config)}.${ext}`; path.extname gives ext.
WithExtension(localPath, ext) == <<toAbsolutePath(localPath), ext>>
extname(absPath) == absPath[2]

\* The dependency a callable script reports by itself.
OwnDependency == WithExtension(DataName, "json")

StateOf(lk, absPath) ==
    IF absPath[1] = toAbsolutePath(lk.base) THEN lk.files[extname(absPath)]
    ELSE "absent"

Exists(lk, absPath) == StateOf(lk, absPath) # "absent"

Outcome(error, fragment, reports, accessed) ==
    [error |-> error, fragment |-> fragment, reports |-> reports,
     accessed |-> accessed]

NoFragment == <<>>

\* parseFileContent: the extension check, then the import or the read and
\* the parse; the path is reported after a parse that succeeded.
parseFileContent(lk, absPath) ==
    LET st == StateOf(lk, absPath) IN
    CASE ~Recognized(extname(absPath)) ->
           Outcome("UnsupportedFileExtensionError", NoFragment, <<>>, FALSE)
      [] Recognized(extname(absPath)) /\ st \in {"absent", "brokenImport"} ->
           Outcome("FileNotFoundError", NoFragment, <<>>, TRUE)
      [] Recognized(extname(absPath)) /\ st \in {"importThrows", "malformed"} ->
           Outcome("Error", NoFragment, <<>>, TRUE)
      [] Recognized(extname(absPath)) /\ st = "callableThrows" ->
           Outcome("Error", NoFragment, <<OwnDependency>>, TRUE)
      [] Recognized(extname(absPath)) /\ st = "callable" ->
           Outcome("none", absPath, <<OwnDependency, absPath>>, TRUE)
      [] OTHER -> Outcome("none", absPath, <<absPath>>, TRUE)

\* findAndParseContentFile: the loop over filetypes from position i on.
RECURSIVE TryExtensions(_, _, _, _)
TryExtensions(lk, localPath, i, reports) ==
    IF i > Len(filetypes)
    THEN Outcome("PageNotFoundError", NoFragment, reports, TRUE)
    ELSE LET r == parseFileContent(lk, WithExtension(localPath, filetypes[i])) IN
         IF r.error = "FileNotFoundError"
         THEN TryExtensions(lk, localPath, i + 1, reports \o r.reports)
         ELSE Outcome(r.error, r.fragment, reports \o r.reports, TRUE)

\* localPath ||= this.config.indexFile
OrIndex(localPath) == IF localPath = RootPath THEN indexFile ELSE localPath

findAndParseContentFile(lk, localPath) ==
    TryExtensions(lk, OrIndex(localPath), 1, <<>>)

\* globSync(pattern, { cwd }): the files <<name, extension>> of the content
\* root whose extension is one of filetypes.
globSync(files) == {f \in files : f[2] \in Range(filetypes)}

\* discoverContentPaths: the files matching the pattern, without the
\* fragment files, mapped to site paths; path.join(dir, name) is the
\* relative path without its extension.
discoverContentPaths(files) ==
    {IF f[1] = indexFile THEN RootPath ELSE f[1] :
        f \in {g \in globSync(files) : ~StartsWithUnderscore(g[1])}}

\* The files of the content root in a lookup state.
FilesOf(lk) ==
    {<<lk.base, ext>> : ext \in {x \in Extensions : lk.files[x] # "absent"}}

NoCall == [op |-> "none", arg |-> RootPath, result |-> NoFragment, entries |-> {}]

LookupInit ==
    /\ lookup \in
         {[done |-> FALSE, base |-> base, files |-> files, call |-> NoCall] :
             base \in BaseNames,
             files \in {f \in [Extensions -> UNION {FileStates(ext) : ext \in Extensions}] :
                           \A ext \in Extensions : f[ext] \in FileStates(ext)}}
    /\ CacheUnused
    /\ resolution = Unused
    /\ listing = Unused
    /\ validation = Unused
    /\ tracking = Unused
    /\ traversal = Unused
    /\ chain = Unused
    /\ hashing = Unused
    /\ reloading = Unused

Called(op, arg, result, entries) ==
    /\ lookup' = [lookup EXCEPT
                     !.done = TRUE,
                     !.call = [op |-> op, arg |-> arg, result |-> result,
                               entries |-> entries]]
    /\ UNCHANGED <<cacheVars, resolution, listing, validation, tracking,
                 traversal, chain, hashing, reloading>>

ParseFile ==
    \E ext \in Extensions :
        /\ lookup.call.op = "none"
        /\ Called("parse", WithExtension(lookup.base, ext),
                  parseFileContent(lookup, WithExtension(lookup.base, ext)), {})

FindFile ==
    \E localPath \in LocalPaths :
        /\ lookup.call.op = "none"
        /\ Called("find", localPath,
                  findAndParseContentFile(lookup, localPath), {})

Discover ==
    /\ lookup.call.op = "none"
    /\ Called("discover", RootPath, NoFragment,
              discoverContentPaths(FilesOf(lookup)))

\* loadContent of a discovered site path: its first step.
LoadDiscovered ==
    \E p \in lookup.call.entries :
        /\ lookup.call.op = "discover"
        /\ Called("load", p, findAndParseContentFile(lookup, p),
                  lookup.call.entries)

LookupNext ==
    \/ ParseFile
    \/ FindFile
    \/ Discover
    \/ LoadDiscovered

LookupSpec == LookupInit /\ [][LookupNext]_vars
ExistingAt(lk, localPath) ==
    {i \in 1..Len(filetypes) :
        Exists(lk, WithExtension(localPath, filetypes[i]))}

Least(S) == CHOOSE i \in S : \A j \in S : i <= j

\* C16: findAndParseContentFile looks up the empty path as the index file,
\* rejects with PageNotFoundError when no file with a recognized extension
\* exists, and otherwise returns what parsing the first existing file in
\* the order js, ts, json, yaml, yml, md gives, error or fragment, with
\* the reports of that parse only.
C16_FirstExistingFile ==
    lookup.call.op = "find" =>
        LET name == IF lookup.call.arg = RootPath THEN indexFile
                    ELSE lookup.call.arg
            existing == ExistingAt(lookup, name)
            r == lookup.call.result
        IN IF existing = {}
           THEN r.error = "PageNotFoundError" /\ r.reports = <<>>
           ELSE LET first == parseFileContent(
                        lookup, WithExtension(name, filetypes[Least(existing)]))
                IN /\ r.error = first.error
                   /\ r.fragment = first.fragment
                   /\ r.reports = first.reports

\* C17: loading a site path that discovery returned, with the file system
\* as it was at discovery, does not reject with PageNotFoundError.
C17_DiscoveredPathLoads ==
    lookup.call.op = "load" =>
        lookup.call.result.error # "PageNotFoundError"
\* ------------------------------------------------------- the content list
MaxListChanges == 2

\* The files <<name, extension>> the content root may hold.
RootFiles ==
    {<<IndexName, "md">>, <<PageName, "md">>, <<PageName, "json">>,
     <<QuotedName, "md">>, <<PartName, "md">>, <<PageName, "exe">>}

\* The paths the application asks the list for.
RequestedPaths == {RootPath, IndexName, PageName, QuotedName, PartName}

\* `'${p}'`: the entry between single quotes in the generated source.
StringLiteral(p) == <<Quote>> \o p \o <<Quote>>

\* What the script parser reads after an opening quote: the characters up
\* to the next quote are the value, the text after it is the rest.
RECURSIVE UpToQuote(_)
UpToQuote(text) ==
    IF text = <<>> THEN [closed |-> FALSE, value |-> <<>>, rest |-> <<>>]
    ELSE IF Head(text) = Quote
         THEN [closed |-> TRUE, value |-> <<>>, rest |-> Tail(text)]
         ELSE LET r == UpToQuote(Tail(text)) IN
              [r EXCEPT !.value = <<Head(text)>> \o @]

\* The string a literal of the generated source denotes.
Label(text) == UpToQuote(Tail(text))

\* The generated source is a script when every literal ends where the
\* generator meant it to end.
Compiles(literals) ==
    \A text \in literals : Label(text).closed /\ Label(text).rest = <<>>

\* getEntries(config, true)
getEntries(files) == discoverContentPaths(files)

\* virtualContentSource: refreshes the entries and writes one case per
\* entry, and the entry names of the default case.
virtualContentSource(files) ==
    [entries |-> getEntries(files),
     cases |-> {StringLiteral(p) : p \in getEntries(files)},
     entryNames |-> {StringLiteral(e) : e \in getEntries(files)}]

\* A page exists for a site path when one of its files is in the root.
PageFound(files, p) ==
    \E ext \in Range(filetypes) : <<OrIndex(p), ext>> \in files

\* loadPageContent(path) of the generated module mod: the switch over the
\* cases; a case imports the page module of its entry, which resolveId
\* resolves when the entry is among the entries.
loadPageContent(mod, files, path) ==
    IF ~Compiles(mod.cases \cup mod.entryNames)
    THEN [error |-> "SyntaxError", target |-> <<"none">>,
          pageFound |-> FALSE, availableEntries |-> {}]
    ELSE IF \E text \in mod.cases : Label(text).value = path
         THEN [error |-> IF path \in mod.entries THEN "none"
                         ELSE "ResolveError",
               target |-> <<"page", path>>,
               pageFound |-> PageFound(files, path),
               availableEntries |-> {}]
         ELSE [error |-> "ContentEntryNotFoundError", target |-> <<"none">>,
               pageFound |-> FALSE,
               availableEntries |-> {Label(text).value :
                                        text \in mod.entryNames}]

NoListCall ==
    [op |-> "none", path |-> RootPath,
     result |-> [error |-> "none", target |-> <<"none">>,
                 pageFound |-> FALSE, availableEntries |-> {}]]

NoModule == [entries |-> {}, cases |-> {}, entryNames |-> {}]
NoEvent == [inside |-> FALSE, file |-> <<RootPath, "">>, type |-> "none"]

ListInit ==
    /\ listing \in
         {[done |-> FALSE, files |-> files, inGraph |-> FALSE,
           valid |-> FALSE, mod |-> NoModule, queue |-> <<>>, changes |-> 0,
           changed |-> NoEvent, call |-> NoListCall] :
             files \in SUBSET RootFiles}
    /\ CacheUnused
    /\ resolution = Unused
    /\ lookup = Unused
    /\ validation = Unused
    /\ tracking = Unused
    /\ traversal = Unused
    /\ chain = Unused
    /\ hashing = Unused
    /\ reloading = Unused

ListStep(next) ==
    /\ listing' = next
    /\ UNCHANGED <<cacheVars, resolution, lookup, validation, tracking,
                 traversal, chain, hashing, reloading>>

\* A file is written to or removed from disk; the watcher will tell.
FileEvent(files, inside, file, type) ==
    /\ listing.changes < MaxListChanges
    /\ ListStep([listing EXCEPT
                    !.done = TRUE,
                    !.files = files,
                    !.changes = @ + 1,
                    !.queue = Append(@, [inside |-> inside, file |-> file,
                                         type |-> type]),
                    !.changed = [inside |-> inside, file |-> file,
                                 type |-> type],
                    !.call = NoListCall])

AddFile ==
    \E f \in RootFiles \ listing.files :
        FileEvent(listing.files \cup {f}, TRUE, f, "add")

RemoveFile ==
    \E f \in listing.files :
        FileEvent(listing.files \ {f}, TRUE, f, "unlink")

\* A file with a recognized extension is added outside the content root.
OutsideFiles == {<<PageName, "md">>}

AddOutside ==
    \E f \in OutsideFiles : FileEvent(listing.files, FALSE, f, "add")

\* handleFileEvent
Invalidates(event) ==
    /\ event.inside
    /\ event.file[2] \in Range(filetypes)
    /\ ~StartsWithUnderscore(event.file[1])

HandleFileEvent ==
    /\ listing.queue # <<>>
    /\ ListStep([listing EXCEPT
                    !.queue = Tail(@),
                    !.call = NoListCall,
                    !.valid = IF Invalidates(Head(listing.queue))
                                 /\ listing.inGraph
                              THEN FALSE ELSE @])

\* The application loads the list module and calls it with a path; the
\* load hook runs when the module is not in the module graph or has been
\* invalidated.
ListModule ==
    IF listing.inGraph /\ listing.valid THEN listing.mod
    ELSE virtualContentSource(listing.files)

Content ==
    \E path \in RequestedPaths :
        ListStep([listing EXCEPT
                     !.done = TRUE,
                     !.inGraph = TRUE,
                     !.valid = TRUE,
                     !.mod = ListModule,
                     !.call = [op |-> "content", path |-> path,
                               result |-> loadPageContent(
                                              ListModule, listing.files,
                                              path)]])

ListNext ==
    \/ AddFile
    \/ RemoveFile
    \/ AddOutside
    \/ HandleFileEvent
    \/ Content

ListSpec == ListInit /\ [][ListNext]_vars

\* C18: the list loader, called with a path that is not among the entries
\* discovered when the list was generated, rejects with
\* ContentEntryNotFoundError carrying exactly those entries; called with
\* one of them it delegates to the page module of that entry.
C18_UnknownPathRejected ==
    listing.call.op = "content" =>
        LET r == listing.call.result IN
        IF listing.call.path \in listing.mod.entries
        THEN r.error = "none" /\ r.target = <<"page", listing.call.path>>
        ELSE /\ r.error = "ContentEntryNotFoundError"
             /\ r.availableEntries = listing.mod.entries

\* C19: when the last change of the content root added or removed a
\* non-fragment file with a recognized extension and every watcher event
\* has been handled, a call of the list loader answers for the files as
\* they are now: a path that has a file loads its page, any other path is
\* rejected with ContentEntryNotFoundError.
C19_ListFollowsFiles ==
    (/\ listing.call.op = "content"
     /\ listing.queue = <<>>
     /\ listing.changed.type \in {"add", "unlink"}
     /\ Invalidates(listing.changed)) =>
        LET r == listing.call.result IN
        IF listing.call.path \in discoverContentPaths(listing.files)
        THEN /\ r.error = "none"
             /\ r.target = <<"page", listing.call.path>>
             /\ r.pageFound
        ELSE r.error = "ContentEntryNotFoundError"
\* ---------------------------------------------------- the validation pass
\* Records have string keys here; a component name is a sequence: one
\* element for a renderer, the prefix and a hash for a referenced unit
\* made from markdown.
Renderers == {"Page", "Item"}
componentRoot == "components"

IsObject(v) == v.kind = "object"

\* typeof obj?.component === 'string'
HasComponent(r) == "component" \in DOMAIN r /\ r.component.kind = "string"

\* obj.component.startsWith(this.config.componentPrefix)
StartsWithPrefix(name) == name[1] = VirtualComponentId(<<>>)[1]

\* The filters of the second and of the third pass.
IsRegular(r) == HasComponent(r) /\ ~StartsWithPrefix(r.component.s)
IsVirtual(r) == HasComponent(r) /\ StartsWithPrefix(r.component.s)

\* `${config.componentRoot}/${content.component}.svelte`
componentFilePath(name) == <<componentRoot, name, "svelte">>

\* A variant of getSchema that finds a schema in every renderer source.
HasSchemaAlways(src) == src # "missing"

\* getSchema: the source matches the pattern of a schema declaration.
HasSchema(src) == src = "schema"

\* composablyTypes.markdown: prepare(val), and process, which hands the
\* remaining properties to the unit as its parent.
Prepared(val, options, props) ==
    Obj([component |-> Str(VirtualComponentId(val)),
         markdown |-> Str(val),
         options |-> Obj(options),
         parent |-> Obj(props)])

\* The options each renderer's schema gives to c.markdown: Page declares
\* c.markdown(), Item declares c.markdown({ decreaseHeadings: false }).
MarkdownOptions(name) ==
    IF name = "Item"
    THEN [k \in {"decreaseHeadings"} |-> [kind |-> "boolean", b |-> FALSE]]
    ELSE [k \in {} |-> Undefined]

\* The schema the renderers of the model declare:
\* c.content({ body: c.markdown(options), title: z.string().optional() }),
\* a strict object.
Accepts(content) ==
    /\ {"component", "body"} \subseteq DOMAIN content
    /\ DOMAIN content \subseteq {"component", "body", "title"}
    /\ content.body.kind = "string"
    /\ "title" \in DOMAIN content => content.title.kind = "string"

\* process: the properties other than component and the units are taken
\* off the record's own level only in the copy given to the unit as parent.
Transformed(content) ==
    LET props == [k \in DOMAIN content \ {"component", "body"} |-> content[k]] IN
    [k \in DOMAIN content |->
        IF k = "body"
        THEN Prepared(content.body.s, MarkdownOptions(content.component.s[1]),
                      props)
        ELSE content[k]]

\* colocate: the outcome of validating one record.
colocate(sources, content) ==
    LET name == content.component.s[1]
        src == sources[name] IN
    CASE src = "missing" ->
           [error |-> TRUE, data |-> content, reports |-> {}]
      [] src # "missing" /\ ~HasSchema(src) ->
           [error |-> FALSE, data |-> content, reports |-> {}]
      [] src # "missing" /\ HasSchema(src) /\ ~Accepts(content) ->
           [error |-> TRUE, data |-> content, reports |-> {}]
      [] OTHER ->
           [error |-> FALSE, data |-> Transformed(content),
            reports |-> {componentFilePath(name)}]

\* The second pass: contentTraverser with the validator as callback.  The
\* calls are kept: the record given and the record returned.
RECURSIVE validationPass(_, _)
validationPass(sources, v) ==
    IF ~IsObject(v)
    THEN [error |-> FALSE, value |-> v, reports |-> {}, calls |-> {}]
    ELSE LET own == IF IsRegular(v.o) THEN colocate(sources, v.o)
                    ELSE [error |-> FALSE, data |-> v.o, reports |-> {}]
             called == IF IsRegular(v.o)
                       THEN {[content |-> v.o, returned |-> own.data,
                              error |-> own.error]}
                       ELSE {}
         IN IF own.error
            THEN [error |-> TRUE, value |-> v, reports |-> {},
                  calls |-> called]
            ELSE LET below == [k \in DOMAIN own.data |->
                                  validationPass(sources, own.data[k])] IN
                 [error |-> \E k \in DOMAIN below : below[k].error,
                  value |-> Obj([k \in DOMAIN below |-> below[k].value]),
                  reports |-> own.reports
                                \cup UNION {below[k].reports : k \in DOMAIN below},
                  calls |-> called
                              \cup UNION {below[k].calls : k \in DOMAIN below}]

\* parseComponentContent: the html is added, the properties of the parent
\* are merged onto the unit, and the parent and markdown fields are deleted;
\* every other field of the record (its options) stays.
Rendered(content) ==
    LET parent == IF "parent" \in DOMAIN content /\ IsObject(content.parent)
                  THEN content.parent.o ELSE [k \in {} |-> Undefined]
        keys == ((DOMAIN content \cup {"html"} \cup DOMAIN parent)
                    \ {"markdown"})
                  \ (IF "parent" \in DOMAIN content /\ IsObject(content.parent)
                     THEN {"parent"} ELSE {}) IN
    [k \in keys |->
        CASE k \in DOMAIN parent -> parent[k]
          [] k = "html" -> content.markdown
          [] OTHER -> content[k]]

HasMarkdown(r) == "markdown" \in DOMAIN r /\ r.markdown.kind = "string"

\* The third pass.
RECURSIVE virtualPass(_)
virtualPass(v) ==
    IF ~IsObject(v) THEN [value |-> v, units |-> {}, reported |-> {}]
    ELSE LET hit == IsVirtual(v.o) /\ HasMarkdown(v.o)
             newObj == IF hit THEN Rendered(v.o) ELSE v.o
             below == [k \in DOMAIN newObj |-> virtualPass(newObj[k])] IN
         [value |-> Obj([k \in DOMAIN below |-> below[k].value]),
          units |-> (IF hit THEN {v.o.component.s} ELSE {})
                      \cup UNION {below[k].units : k \in DOMAIN below},
          reported |-> (IF hit THEN {newObj} ELSE {})
                         \cup UNION {below[k].reported : k \in DOMAIN below}]

\* The pages of the model: a root record with or without a renderer, with
\* or without a markdown body, and with or without a slot holding a
\* record with a renderer or a unit made from markdown.
Optional(key, values) ==
    {[k \in {} |-> Undefined]} \cup {[k \in {key} |-> x] : x \in values}

Slotted ==
    {Obj(Spread(c, b)) :
        c \in {[k \in {"component"} |-> Str(<<n>>)] : n \in Renderers},
        b \in Optional("body", {Str(TextB)})}
      \cup {Obj([component |-> Str(VirtualComponentId(TextB)),
                 markdown |-> Str(TextB)])}

Pages ==
    {Obj(Spread(Spread(Spread(c, b), t), sl)) :
        c \in Optional("component", {Str(<<n>>) : n \in Renderers}),
        b \in Optional("body", {Str(TextA)}),
        t \in Optional("title", {Str(TextB)}),
        sl \in Optional("slot", Slotted)}

SourceStates == {"missing", "noSchema", "schema"}

ValidationInit ==
    /\ validation \in
         {[done |-> FALSE, stage |-> "start", sources |-> sources,
           page |-> page, out |-> page, reports |-> {}, calls |-> {},
           units |-> {}, reported |-> {}] :
             sources \in [Renderers -> SourceStates], page \in Pages}
    /\ CacheUnused
    /\ resolution = Unused
    /\ lookup = Unused
    /\ listing = Unused
    /\ tracking = Unused
    /\ traversal = Unused
    /\ chain = Unused
    /\ hashing = Unused
    /\ reloading = Unused

ValidationPass ==
    /\ validation.stage = "start"
    /\ validation' =
         [validation EXCEPT
             !.done = TRUE,
             !.stage = IF validationPass(validation.sources,
                                         validation.page).error
                       THEN "failed" ELSE "validated",
             !.out = validationPass(validation.sources, validation.page).value,
             !.reports = validationPass(validation.sources,
                                        validation.page).reports,
             !.calls = validationPass(validation.sources,
                                      validation.page).calls]
    /\ UNCHANGED <<cacheVars, resolution, lookup, listing, tracking,
                 traversal, chain, hashing, reloading>>

VirtualPass ==
    /\ validation.stage = "validated"
    /\ validation' =
         [validation EXCEPT
             !.stage = "finished",
             !.out = virtualPass(validation.out).value,
             !.units = virtualPass(validation.out).units,
             !.reported = virtualPass(validation.out).reported]
    /\ UNCHANGED <<cacheVars, resolution, lookup, listing, tracking,
                 traversal, chain, hashing, reloading>>

ValidationNext ==
    \/ ValidationPass
    \/ VirtualPass

ValidationSpec == ValidationInit /\ [][ValidationNext]_vars

MaxTrackChanges == 2

\* config.root, as toAbsolutePath resolves it.
projectRoot == toAbsolutePath(RootPath)[1]

\* The path the file watcher delivers for a file: absolute, the path
\* resolved against the project root when it is relative.
WatchedPath(p) == IF p[1] = projectRoot THEN p ELSE <<projectRoot>> \o p

\* The source file of an entry, as parseFileContent reports it.
ContentKey(e) == WithExtension(e, "md")

\* The record of an entry: a unit of renderer n with a markdown body.
PageOf(n) == [component |-> Str(<<n>>), body |-> Str(TextA)]

\* The fragment file, as parseFileContent reports it.
FragmentKey == WithExtension("_g", "yaml")

\* The keys the File Dependency Callback receives while entry e loads: its
\* source file, the fragment file when the source currently references it,
\* and what colocate reports.
ReportedKeys(tr, e) ==
    {ContentKey(e)}
      \cup (IF tr.refs[e] THEN {FragmentKey} ELSE {})
      \cup colocate(tr.sources, PageOf(tr.renderer[e])).reports

\* Every file whose change the watcher reports.
WatchedFiles ==
    {ContentKey(e) : e \in Entries}
      \cup {FragmentKey}
      \cup {WatchedPath(componentFilePath(n)) : n \in Renderers}

NoInvalidation == [op |-> "none", key |-> <<>>, before |-> {}]

TrackInit ==
    /\ tracking \in
         {[done |-> FALSE, renderer |-> renderer, sources |-> sources,
           refs |-> refs, reads |-> [e \in Entries |-> {}],
           pageCache |-> {}, edges |-> {}, queue |-> {}, changes |-> 0,
           last |-> NoInvalidation] :
             renderer \in [Entries -> Renderers],
             sources \in [Renderers -> {"noSchema", "schema"}],
             refs \in [Entries -> BOOLEAN]}
    /\ CacheUnused
    /\ resolution = Unused
    /\ lookup = Unused
    /\ listing = Unused
    /\ validation = Unused
    /\ traversal = Unused
    /\ chain = Unused
    /\ hashing = Unused
    /\ reloading = Unused

TrackStep(next) ==
    /\ tracking' = next
    /\ UNCHANGED <<cacheVars, resolution, lookup, listing, validation,
                   traversal, chain, hashing, reloading>>

\* virtualPageSource for an entry that is not cached, its load succeeding:
\* every reported key becomes an edge to the entry.
LoadPage ==
    \E e \in Entries \ tracking.pageCache :
        TrackStep([tracking EXCEPT
                      !.done = TRUE,
                      !.pageCache = @ \cup {e},
                      !.reads[e] = ReportedKeys(tracking, e),
                      !.edges = @ \cup {<<k, e>> : k \in ReportedKeys(tracking, e)},
                      !.last = NoInvalidation])

\* A watched file is rewritten; the new text of an entry's source file
\* holds a fragment reference or none.
WatchedChange ==
    \E p \in WatchedFiles : \E refs \in [Entries -> BOOLEAN] :
        /\ tracking.changes < MaxTrackChanges
        /\ \A e \in Entries : p # ContentKey(e) => refs[e] = tracking.refs[e]
        /\ TrackStep([tracking EXCEPT
                         !.done = TRUE,
                         !.changes = @ + 1,
                         !.refs = refs,
                         !.queue = @ \cup {p}])

\* fileToContentEntries.get(filePath)
DependingOn(tr, p) == {x[2] : x \in {y \in tr.edges : y[1] = p}}

\* handleHotUpdate: invalidateAndGetAffectedItems(file).
HandleUpdate ==
    \E p \in tracking.queue :
        TrackStep([tracking EXCEPT
                      !.queue = @ \ {p},
                      !.pageCache = @ \ DependingOn(tracking, p),
                      !.reads = [e \in Entries |->
                                    IF e \in DependingOn(tracking, p) THEN {}
                                    ELSE @[e]],
                      !.edges = {y \in @ : y[1] # p},
                      !.last = [op |-> "invalidate", key |-> p,
                                before |-> tracking.pageCache]])

TrackNext ==
    \/ LoadPage
    \/ WatchedChange
    \/ HandleUpdate

TrackSpec == TrackInit /\ [][TrackNext]_vars

\* C21: once the change event of a renderer file has been handled, no
\* entry that was cached with a unit validated against that renderer is
\* still in the page cache.
C21_RendererChangeEvicts ==
    \A n \in Renderers :
        (/\ tracking.last.op = "invalidate"
         /\ tracking.last.key = WatchedPath(componentFilePath(n))
         /\ tracking.sources[n] = "schema") =>
            \A e \in tracking.last.before :
                tracking.renderer[e] = n => e \notin tracking.pageCache
\* ------------------------------------------------------- contentTraverser
\* The traverser on its own: any value, a filter and a transform.
Arr(a) == [kind |-> "array", a |-> a]
Null == [kind |-> "null"]
DateValue == [kind |-> "date", ms |-> 0]

\* Array.isArray(obj)
IsArray(v) == v.kind = "array"

\* A variant for which no value is a date.
IsDateNever(v) == FALSE

\* obj instanceof Date
IsDate(v) == v.kind = "date"

\* typeof v === 'object' && v !== null
TypeofObject(v) == v.kind \in {"object", "array", "date"}

\* Object.entries of a value that is not an array: a date has none.
EntriesOf(v) == IF v.kind = "object" THEN v.o ELSE [k \in {} |-> Undefined]

\* The filters studied: none, records with a key "t", every record.
Filters == {"never", "marked", "always"}

Holds(fl, v) ==
    CASE fl = "never" -> FALSE
      [] fl = "marked" -> v.kind = "object" /\ "t" \in DOMAIN v.o
      [] OTHER -> TRUE

\* The transform studied: it marks the record as done, keeps none of its
\* fields, and for a record with a key "n" introduces a new marked record.
Transform(v) ==
    IF "n" \in DOMAIN EntriesOf(v)
    THEN Obj([x |-> Str("done"), c |-> Obj([t |-> Str("new")])])
    ELSE Obj([x |-> Str("done")])

\* A variant that keeps the results as they are.
Unflattened(results, i) == results

\* results.flat(): array elements are spliced in, one level.
RECURSIVE FlatFrom(_, _)
FlatFrom(results, i) ==
    IF i > Len(results) THEN <<>>
    ELSE (IF IsArray(results[i]) THEN results[i].a ELSE <<results[i]>>)
           \o FlatFrom(results, i + 1)

IndexKey == <<"0", "1", "2">>

\* A variant that descends into the record as it was before the transform.
DescendIntoOriginal(v, newObj) == v

\* Object.entries(newObj): the record whose values are traversed.
DescendInto(v, newObj) == newObj

\* contentTraverser({ obj, filter, callback }) at position path: the value
\* returned, the calls of the callback and the calls of the filter.
RECURSIVE Traversed(_, _, _)
Traversed(fl, v, path) ==
    IF IsArray(v)
    THEN LET results == [i \in 1..Len(v.a) |->
                            Traversed(fl, v.a[i], Append(path, IndexKey[i]))] IN
         [value |-> Arr(FlatFrom([i \in 1..Len(v.a) |-> results[i].value], 1)),
          calls |-> UNION {results[i].calls : i \in 1..Len(v.a)},
          tested |-> UNION {results[i].tested : i \in 1..Len(v.a)}]
    ELSE IF TypeofObject(v)
    THEN IF IsDate(v)
         THEN [value |-> v, calls |-> {}, tested |-> {}]
         ELSE LET newObj == IF Holds(fl, v) THEN Transform(v) ELSE v
                  items == EntriesOf(DescendInto(v, newObj))
                  below == [k \in DOMAIN items |->
                               IF TypeofObject(items[k])
                               THEN Traversed(fl, items[k], Append(path, k))
                               ELSE [value |-> items[k], calls |-> {},
                                     tested |-> {}]] IN
              [value |-> Obj([k \in DOMAIN items |-> below[k].value]),
               calls |-> (IF Holds(fl, v) THEN {<<path, v>>} ELSE {})
                           \cup UNION {below[k].calls : k \in DOMAIN items},
               tested |-> {<<path, v>>}
                            \cup UNION {below[k].tested : k \in DOMAIN items}]
    ELSE [value |-> v, calls |-> {}, tested |-> {}]

\* The trees of the model.
Leaves == {Str("s"), Null, DateValue}

SmallRecords ==
    {Obj(Spread(Spread(a, b), c)) :
        a \in Optional("t", {Str("m")}),
        b \in Optional("n", {Str("m")}),
        c \in Optional("k", {DateValue})}

SmallArrays ==
    {Arr(<<>>), Arr(<<Str("s")>>), Arr(<<Obj([t |-> Str("m")])>>),
     Arr(<<Arr(<<Str("s")>>)>>)}

Elements == Leaves \cup SmallRecords \cup SmallArrays

Arrays ==
    {Arr(<<>>)} \cup {Arr(<<e>>) : e \in Elements}
      \cup {Arr(<<e, f>>) : e \in Elements, f \in Elements}

Trees ==
    Leaves \cup Arrays
      \cup {Obj(Spread(Spread(a, b), c)) :
               a \in Optional("t", {Str("m")}),
               b \in Optional("n", {Str("m")}),
               c \in Optional("k", Elements \cup
                                     {Arr(<<e, Str("s")>>) : e \in Elements})}

TraversalInit ==
    /\ traversal \in
         {[done |-> FALSE, filter |-> fl, obj |-> v,
           out |-> [value |-> Undefined, calls |-> {}, tested |-> {}]] :
             fl \in Filters, v \in Trees}
    /\ CacheUnused
    /\ resolution = Unused
    /\ lookup = Unused
    /\ listing = Unused
    /\ validation = Unused
    /\ tracking = Unused
    /\ chain = Unused
    /\ hashing = Unused
    /\ reloading = Unused

Traverse ==
    /\ ~traversal.done
    /\ traversal' =
         [traversal EXCEPT
             !.done = TRUE,
             !.out = Traversed(traversal.filter, traversal.obj, <<>>)]
    /\ UNCHANGED <<cacheVars, resolution, lookup, listing, validation,
                   tracking, chain, hashing, reloading>>

TraversalSpec == TraversalInit /\ [][Traverse]_vars
\* C22: a record satisfying the filter is transformed before the descent,
\* and the descent is into the values of the transformed record: the
\* result has the keys of the transformed record, a record the transform
\* introduced is itself transformed when it satisfies the filter, no value
\* of the original record is visited, and no position is transformed twice
\* nor is a transformed record transformed again.
C22_TransformThenDescend ==
    traversal.done =>
        LET v == traversal.obj
            out == traversal.out IN
        /\ (v.kind = "object" /\ Holds(traversal.filter, v)) =>
              /\ DOMAIN out.value.o = DOMAIN Transform(v).o
              /\ out.value.o.x = Str("done")
              /\ "n" \in DOMAIN v.o => out.value.o.c = Obj([x |-> Str("done")])
              /\ \A c \in out.tested : c[1] = <<>> \/ c[1] = <<"c">>
        /\ \A c \in out.calls, d \in out.calls : c[1] = d[1] => c = d
        /\ \A c \in out.calls : "x" \notin DOMAIN c[2].o

\* C22 witness: a record with the keys "t" and "n" was traversed under the
\* filter for marked records, and the record its transform introduced
\* came out transformed.
C22_Witness ==
    /\ traversal.done
    /\ traversal.filter = "marked"
    /\ traversal.obj.kind = "object"
    /\ {"t", "n", "k"} \subseteq DOMAIN traversal.obj.o
    /\ traversal.out.value.o.c = Obj([x |-> Str("done")])
    /\ Cardinality(traversal.out.calls) = 2

\* The result of traversing element i of an array, as the pieces it
\* contributes to the parent.
Piece(fl, a, i) ==
    IF i > Len(a) THEN <<>>
    ELSE IF IsArray(a[i]) THEN Traversed(fl, a[i], <<IndexKey[i]>>).value.a
         ELSE <<Traversed(fl, a[i], <<IndexKey[i]>>).value>>

\* C23: the result for a sequence is the sequence of the traversal results
\* of its elements, in order, where the result of an element that is
\* itself a sequence is spliced in; without sequence elements the length
\* is kept.
C23_FlattenedOneLevel ==
    (traversal.done /\ IsArray(traversal.obj)) =>
        LET a == traversal.obj.a
            fl == traversal.filter
            out == traversal.out.value IN
        /\ IsArray(out)
        /\ out.a = Piece(fl, a, 1) \o Piece(fl, a, 2)
        /\ (\A i \in 1..Len(a) : ~IsArray(a[i])) =>
              /\ Len(out.a) = Len(a)
              /\ \A i \in 1..Len(a) :
                     out.a[i] = Traversed(fl, a[i], <<IndexKey[i]>>).value

\* C23 witness: a sequence of a sequence and a string came out as the
\* elements of the inner sequence followed by the string.
C23_Witness ==
    /\ traversal.done
    /\ traversal.obj = Arr(<<Arr(<<Str("s")>>), Null>>)
    /\ traversal.out.value = Arr(<<Str("s"), Null>>)

RECURSIVE NoNestedSequence(_)
NoNestedSequence(v) ==
    CASE v.kind = "array" ->
           \A i \in 1..Len(v.a) : ~IsArray(v.a[i]) /\ NoNestedSequence(v.a[i])
      [] v.kind = "object" ->
           \A k \in DOMAIN v.o : NoNestedSequence(v.o[k])
      [] OTHER -> TRUE

C24_After ==
    LET v == traversal.obj
        out == traversal.out IN
    /\ v \in Leaves =>
          out.value = v /\ out.calls = {} /\ out.tested = {}
    /\ \A c \in out.tested \cup out.calls : c[2].kind = "object"
    /\ (traversal.filter = "never" /\ NoNestedSequence(v)) => out.value = v

\* C24: a traversal leaves its input as it was; a string, null or a date
\* is returned as it is without a call of the filter or of the transform;
\* the filter and the transform are only ever called on records; and with
\* the filter that never holds a tree without nested sequences is returned
\* equal to the input.
C24_OpaqueValuesUntouched ==
    [][traversal'.obj = traversal.obj /\ C24_After']_vars

\* C24 witness: a record holding a date was traversed with the filter that
\* never holds and came out equal to the input.
C24_Witness ==
    /\ traversal.done
    /\ traversal.filter = "never"
    /\ traversal.obj.kind = "object"
    /\ "k" \in DOMAIN traversal.obj.o
    /\ traversal.obj.o.k = DateValue
    /\ traversal.out.value = traversal.obj
\* ---------------------------------------- fragment resolution, step by step
\* The first pass as the traverser runs it: one record is visited at a
\* time, and the records among the fields of what the visit returned are
\* visited later.  The files may reference each other in any way.
AnyFile == {FragmentFiles[1], FragmentFiles[2]}

References == {RootKey, NamedKey}

ReferringRecords ==
    {r \in Records(AnyFile) : DOMAIN r \subseteq References}

ChainFiles == [AnyFile -> {Obj(r) : r \in Records(AnyFile)}]

\* The records a visit leaves to be visited.
RecordsIn(r) == {r[k].o : k \in {x \in DOMAIN r : r[x].kind = "object"}}

ChainInit ==
    /\ chain \in
         {[done |-> FALSE, files |-> files, page |-> page,
           pending |-> {page}] :
             files \in ChainFiles, page \in ReferringRecords}
    /\ CacheUnused
    /\ resolution = Unused
    /\ lookup = Unused
    /\ listing = Unused
    /\ validation = Unused
    /\ tracking = Unused
    /\ traversal = Unused
    /\ hashing = Unused
    /\ reloading = Unused

\* One call of contentTraverser on a record: the callback when the filter
\* holds, then the descent.
Visit ==
    \E node \in chain.pending :
        /\ chain' =
             [chain EXCEPT
                 !.done = TRUE,
                 !.pending = (@ \ {node})
                               \cup RecordsIn(Visited(chain.files, node))]
        /\ UNCHANGED <<cacheVars, resolution, lookup, listing, validation,
                       tracking, traversal, hashing, reloading>>

ChainSpec == ChainInit /\ [][Visit]_vars

\* The pass has settled: no record is left to visit.
Settled == chain.pending = {}

\* The files a record references, and the files reachable from a file.
ReferencedBy(r) == {r[k].s : k \in References \cap DOMAIN r}

ReachableFrom(files, p) ==
    LET direct == ReferencedBy(files[p].o) IN
    direct \cup UNION {ReferencedBy(files[q].o) : q \in direct}

\* C25: when a file that the page reaches through its references reaches
\* itself, the fragment pass never settles.
C25_CycleNeverSettles ==
    (\E p \in ReferencedBy(chain.page)
             \cup UNION {ReachableFrom(chain.files, q) :
                            q \in ReferencedBy(chain.page)} :
        p \in ReachableFrom(chain.files, p))
      => ~Settled
\* The basename of a relative path starts with an underscore: the
\* character after its last separator is one.
FragmentName(name) ==
    \E i \in 1..Len(name) :
        /\ name[i] = "_"
        /\ i = 1 \/ name[i - 1] = "/"
        /\ \A j \in i..Len(name) : name[j] # "/"

\* C26: discoverContentPaths returns, for every file with a recognized
\* extension whose basename does not start with an underscore, its
\* relative path without extension, the empty path in place of the index
\* basename, and nothing else, so no path of a file whose basename starts
\* with an underscore; such a file is still parsed when a fragment
\* reference names it.
C26_DiscoveryExcludesFragments ==
    /\ lookup.call.op = "discover" =>
          lookup.call.entries =
              {IF f[1] = IndexName THEN RootPath ELSE f[1] :
                  f \in {g \in FilesOf(lookup) :
                            /\ g[2] \in {"js", "ts", "json", "yaml", "yml", "md"}
                            /\ ~FragmentName(g[1])}}
    /\ (/\ lookup.call.op = "parse"
        /\ FragmentName(lookup.base)
        /\ lookup.files[extname(lookup.call.arg)]
               \in {"ok", "module", "callable"}
        /\ extname(lookup.call.arg) # "exe") =>
          /\ lookup.call.result.error = "none"
          /\ lookup.call.result.fragment = lookup.call.arg

\* C26 witness: discovery over a content root whose only files are a page
\* inside a directory named with an underscore returned that page.
C26_Witness ==
    /\ lookup.call.op = "discover"
    /\ lookup.base = UnderDirName
    /\ lookup.call.entries = {UnderDirName}

\* ------------------------------------------- the cache under interleavings
\* C27: once the computation of entry A has rejected and its rollback has
\* run, a step of a sub-computation of that same run adds no dependency edge
\* naming A and no unit to the unit cache.
C27_NothingAfterRollback ==
    [][\A e \in Entries : \A k \in RunIds(e) :
          (/\ Rejected(runs[e][k])
           /\ runs'[e][k].status # runs[e][k].status)
          => /\ \A f \in DOMAIN fileToContentEntries' :
                    e \in fileToContentEntries'[f] => HasEdge(e, f)
             /\ DOMAIN virtualComponentCache'
                    \subseteq DOMAIN virtualComponentCache]_vars

\* C28: when a pending computation of entry A was evicted and a second
\* computation of A was started by a later request, a step of the first
\* computation (its completion or its failure) leaves the page cache entry
\* of the second and its entry->units record as they are, removes no
\* dependency edge naming A and removes or changes no unit the second
\* registered.
C28_SecondRunUntouched ==
    [][\A e \in DOMAIN pageCache : \A k \in RunIds(e) :
          (/\ pageCache[e] # k
           /\ Pending(runs[e][k])
           /\ runs'[e][k].status # runs[e][k].status)
          => /\ e \in DOMAIN pageCache'
             /\ pageCache'[e] = pageCache[e]
             /\ e \in DOMAIN entryToVirtualComponents'
             /\ entryToVirtualComponents'[e] = entryToVirtualComponents[e]
             /\ \A f \in DOMAIN fileToContentEntries :
                    HasEdge(e, f) =>
                        /\ f \in DOMAIN fileToContentEntries'
                        /\ e \in fileToContentEntries'[f]
             /\ \A id \in RunOf(e).generatedVirtualComponents
                              \cap DOMAIN virtualComponentCache :
                    /\ id \in DOMAIN virtualComponentCache'
                    /\ virtualComponentCache'[id] = virtualComponentCache[id]]_vars

\* C29: for each entry whose page cache entry holds a resolved page, the
\* unit id that page references has an entry in the unit cache, also when
\* two entries produce the same id and one of them is evicted or fails.
C29_ReferencedUnitCached ==
    \A e \in DOMAIN pageCache :
        Resolved(RunOf(e)) =>
            UnitOf(RunOf(e)).component \in DOMAIN virtualComponentCache

\* The cache and graph state of entry e is the same before and after a step.
SameStateOf(e) ==
    /\ (e \in DOMAIN pageCache) = (e \in DOMAIN pageCache')
    /\ e \in DOMAIN pageCache => pageCache'[e] = pageCache[e]
    /\ (e \in DOMAIN entryToVirtualComponents)
           = (e \in DOMAIN entryToVirtualComponents')
    /\ e \in DOMAIN entryToVirtualComponents =>
           entryToVirtualComponents'[e] = entryToVirtualComponents[e]
    /\ \A id \in DOMAIN virtualComponentCache :
           virtualComponentCache[id].sourceEntryPath = e =>
               /\ id \in DOMAIN virtualComponentCache'
               /\ virtualComponentCache'[id] = virtualComponentCache[id]
    /\ \A f \in DOMAIN fileToContentEntries :
           HasEdge(e, f) =>
               /\ f \in DOMAIN fileToContentEntries'
               /\ e \in fileToContentEntries'[f]

\* C30: invalidateAndGetAffectedItems(F) leaves the page cache entry, the
\* entry->units record, the units and the dependency edges of every entry
\* that never reports F as they were, and the failure rollback of entry A
\* leaves those of every entry other than A as they were.
C30_OtherEntriesUntouched ==
    [][/\ last'.op = "invalidate" =>
              \A e \in Entries \ last'.deps :
                  last'.key \notin {FileOfTask(e, t) : t \in FilesReadBy(e)}
                      => SameStateOf(e)
       /\ last'.op = "reject" =>
              \A e \in Entries \ {last'.key} : SameStateOf(e)]_vars

\* C31: whenever entry A has no page cache entry, the unit cache holds no
\* unit whose sourceEntryPath is A.
C31_NoUnitWithoutOwner ==
    \A id \in DOMAIN virtualComponentCache :
        virtualComponentCache[id].sourceEntryPath \in DOMAIN pageCache

\* C32: invalidateAndGetAffectedItems(F) evicts only entries whose cached
\* computation read F; an entry that was evicted and recomputed without
\* reading F is not evicted by a later change of F.
C32_EvictsOnlyReaders ==
    [][tracking'.last.op = "invalidate" =>
          \A e \in tracking.pageCache \ tracking'.pageCache :
              tracking'.last.key \in tracking.reads[e]]_vars

\* C33: invalidateAndGetAffectedItems(F) for a file F with no entry
\* recorded returns two empty lists and changes no cache or graph state;
\* and after any call no entry is recorded for F, so a second call with no
\* load in between is such a call.
C33_UnreportedFileNoEffect ==
    [][last'.op = "invalidate" =>
          /\ EntriesDependingOn(last'.key) = {} =>
                 /\ last'.entries = {}
                 /\ last'.vcs = {}
                 /\ UNCHANGED <<pageCache, virtualComponentCache,
                                fileToContentEntries,
                                entryToVirtualComponents>>
          /\ \/ last'.key \notin DOMAIN fileToContentEntries'
             \/ fileToContentEntries'[last'.key] = {}]_vars

\* C33 witness: a change event of a file no entry reported was handled
\* while a resolved page and its unit were cached.
C33_Witness ==
    /\ last.op = "invalidate"
    /\ last.deps = {}
    /\ \E e \in DOMAIN pageCache :
           /\ Resolved(RunOf(e))
           /\ UnitOf(RunOf(e)).component \in DOMAIN virtualComponentCache

\* C34: a failed computation is not cached: the page cache never holds a
\* rejected computation; a rejection for entry A leaves A without a page
\* cache entry, only a request for A gives it one again, and a request that
\* finds none starts a fresh loadContent run, with no file change needed; a
\* computation rejects only in a step in which one of its own
\* sub-computations throws, so the fresh run resolves when nothing throws
\* any more; and runs are started by requests only, a rejected run staying
\* rejected.
C34_FailureNotCached ==
    [][/\ \A e \in DOMAIN pageCache' : ~Rejected(runs'[e][pageCache'[e]])
       /\ \A e \in Entries :
            /\ (last'.op = "reject" /\ last'.key = e)
               => e \notin DOMAIN pageCache'
            /\ (e \in DOMAIN pageCache' /\ e \notin DOMAIN pageCache)
               => (last'.op = "request" /\ last'.key = e)
            /\ (/\ last'.op = "request"
                /\ last'.key = e
                /\ e \notin DOMAIN pageCache)
               => /\ ~last'.hit
                  /\ Len(runs'[e]) = Len(runs[e]) + 1
                  /\ runs'[e][Len(runs'[e])] = NewRun(e)
                  /\ pageCache'[e] = Len(runs'[e])
            /\ Len(runs'[e]) # Len(runs[e])
               => /\ last'.op = "request"
                  /\ last'.key = e
                  /\ ~last'.hit
            /\ \A k \in RunIds(e) :
                 /\ Rejected(runs[e][k]) => Rejected(runs'[e][k])
                 /\ (~Rejected(runs[e][k]) /\ Rejected(runs'[e][k]))
                    => /\ last'.op = "reject"
                       /\ last'.key = e
                       /\ last'.run = k]_vars

\* C34 witness: with no file changed, the first computation of an entry
\* rejected and the second, started by the next request, resolved and is
\* the cached one.
C34_Witness ==
    /\ changes = 0
    /\ \E e \in DOMAIN pageCache :
           /\ Len(runs[e]) = 2
           /\ Rejected(runs[e][1])
           /\ pageCache[e] = 2
           /\ Resolved(runs[e][2])

\* The finished unit records the virtual pass reports for page q when its
\* validation succeeds under the renderer sources src.
ReportedFor(src, q) ==
    IF validationPass(src, q).error THEN {}
    ELSE virtualPass(validationPass(src, q).value).reported

\* C35: two records that produce a unit with the same id, in one page or in
\* two pages, produce the same finished unit record, so that the data cached
\* under the id does not depend on which was registered last.
C35_UnitDataIndependentOfOrder ==
    validation.stage = "finished" =>
        \A u \in validation.reported :
            \A q \in Pages :
                \A v \in ReportedFor(validation.sources, q) :
                    v.component = u.component => v = u

\* ---------------------------------------------------------------- shortHash
\* shortHash on its own: any text over a few UTF-16 code units ("A", "B",
\* "a" and U+7FFF), up to a length at which the 32-bit wrap occurs.
MaxHashLen == 6

CodeUnits == {65, 66, 97, 32767}

RECURSIVE StringsOf(_)
StringsOf(n) ==
    IF n = 0 THEN {<<>>}
    ELSE StringsOf(n - 1)
           \cup {Append(str, c) : str \in {x \in StringsOf(n - 1) : Len(x) = n - 1},
                                  c \in CodeUnits}

HashInit ==
    /\ hashing \in {[done |-> FALSE, str |-> str, out |-> <<>>] :
                       str \in StringsOf(MaxHashLen)}
    /\ CacheUnused
    /\ resolution = Unused
    /\ lookup = Unused
    /\ listing = Unused
    /\ validation = Unused
    /\ tracking = Unused
    /\ traversal = Unused
    /\ chain = Unused
    /\ reloading = Unused

Hash ==
    /\ ~hashing.done
    /\ hashing' = [hashing EXCEPT !.done = TRUE, !.out = shortHash(hashing.str)]
    /\ UNCHANGED <<cacheVars, resolution, lookup, listing, validation,
                   tracking, traversal, chain, reloading>>

HashSpec == HashInit /\ [][Hash]_vars

\* The value the hash is said to have, computed term by term: the sum of
\* code(s[i]) * 31^(n-1-i) modulo 2^32 (in 16-bit halves), reduced modulo
\* 36^4 and written with four base-36 digits.
Times(x, c) ==
    LET low == x[2] * c IN
    <<(x[1] * c + low \div Half) % Half, low % Half>>

RECURSIVE Power31(_)
Power31(k) == IF k = 0 THEN <<0, 1>> ELSE Times(Power31(k - 1), 31)

Sum32(a, b) ==
    LET low == a[2] + b[2] IN
    <<(a[1] + b[1] + low \div Half) % Half, low % Half>>

RECURSIVE TermsFrom(_, _)
TermsFrom(str, i) ==
    IF i > Len(str) THEN <<0, 0>>
    ELSE Sum32(Times(Power31(Len(str) - i), str[i]), TermsFrom(str, i + 1))

RECURSIVE Doubled(_, _, _)
Doubled(t, k, m) == IF k = 0 THEN t ELSE Doubled((t * 2) % m, k - 1, m)

Modulo(x, m) == (Doubled(x[1] % m, 16, m) + x[2]) % m

FourDigits(v) ==
    <<v \div (36 * 36 * 36), (v \div (36 * 36)) % 36, (v \div 36) % 36, v % 36>>

\* C36: shortHash(s) has exactly four characters, each a base-36 digit, and
\* is the base-36 rendering, padded to four digits, of ((sum of code(s[i]) *
\* 31^(n-1-i)) mod 2^32) mod 36^4; the empty string gives "0000".
C36_ShortHashValue ==
    hashing.done =>
        /\ Len(hashing.out) = 4
        /\ \A i \in 1..4 : hashing.out[i] \in 0..35
        /\ hashing.out =
               FourDigits(Modulo(TermsFrom(hashing.str, 1), 36 * 36 * 36 * 36))
        /\ hashing.str = <<>> => hashing.out = <<0, 0, 0, 0>>

\* C36 witness: a text whose sum exceeds 2^32 was hashed, and the distinct
\* text that ends in "BB" instead of "Aa" has the same hash.
C36_Witness ==
    /\ hashing.done
    /\ hashing.str = <<32767, 32767, 32767, 32767, 65, 97>>
    /\ hashing.out = shortHash(<<32767, 32767, 32767, 32767, 66, 66>>)

\* ------------------------------------------------------ getModulesToReload
\* The hot-update hook on its own: what the cache reported as affected by
\* the changed file, and the modules the host's graph holds.
contentPrefix == "composably:content"
NullByte == "\\0"

\* `\0${config.contentPrefix}/${entryPath}`
PageModuleId(entryPath) == <<NullByte, contentPrefix \o "/", entryPath>>

\* The id of the content list module, which the hook never asks for.
ListModuleId == <<NullByte \o contentPrefix>>

UnitIds == {VirtualComponentId(x) : x \in Texts}

GraphModules == {PageModuleId(e) : e \in Entries} \cup UnitIds \cup {ListModuleId}

\* A graph lookup that finds a node for every id.
FoundAlways(graph, id) == TRUE

\* server.moduleGraph.getModuleById(id) returns a node.
getModuleById(graph, id) == id \in graph

\* getModulesToReload, given what invalidateAndGetAffectedItems returned:
\* the nodes invalidated in the graph and the value handed back to the host.
getModulesToReload(affectedEntryPaths, affectedVirtualComponentIds, graph) ==
    LET pageMods == {id \in {PageModuleId(e) : e \in affectedEntryPaths} :
                        getModuleById(graph, id)}
        vcMods == {id \in affectedVirtualComponentIds :
                      getModuleById(graph, id)}
        modulesToReload == pageMods \cup vcMods IN
    IF affectedEntryPaths = {} /\ affectedVirtualComponentIds = {}
    THEN [invalidated |-> {}, returned |-> Undefined]
    ELSE [invalidated |-> modulesToReload,
          returned |-> IF modulesToReload # {}
                       THEN [kind |-> "modules", nodes |-> modulesToReload]
                       ELSE Undefined]

ReloadInit ==
    /\ reloading \in
         {[done |-> FALSE, affectedEntryPaths |-> es,
           affectedVirtualComponentIds |-> ids, graph |-> graph,
           invalidated |-> {}, returned |-> Undefined] :
             es \in SUBSET Entries, ids \in SUBSET UnitIds,
             graph \in SUBSET GraphModules}
    /\ CacheUnused
    /\ resolution = Unused
    /\ lookup = Unused
    /\ listing = Unused
    /\ validation = Unused
    /\ tracking = Unused
    /\ traversal = Unused
    /\ chain = Unused
    /\ hashing = Unused

HotUpdateHook ==
    /\ ~reloading.done
    /\ reloading' =
         [reloading EXCEPT
             !.done = TRUE,
             !.invalidated =
                 getModulesToReload(reloading.affectedEntryPaths,
                                    reloading.affectedVirtualComponentIds,
                                    reloading.graph).invalidated,
             !.returned =
                 getModulesToReload(reloading.affectedEntryPaths,
                                    reloading.affectedVirtualComponentIds,
                                    reloading.graph).returned]
    /\ UNCHANGED <<cacheVars, resolution, lookup, listing, validation,
                   tracking, traversal, chain, hashing>>

ReloadSpec == ReloadInit /\ [][HotUpdateHook]_vars

\* C37: getModulesToReload invalidates and returns exactly the modules,
\* among those the graph holds, of the pages and units the cache reported
\* as affected, and returns undefined when the cache reported nothing or
\* none of the affected modules is in the graph.
C37_ReloadsAffectedModules ==
    reloading.done =>
        LET affected ==
                {<<NullByte, contentPrefix \o "/", e>> :
                    e \in reloading.affectedEntryPaths}
                  \cup reloading.affectedVirtualComponentIds
            present == affected \cap reloading.graph IN
        /\ reloading.invalidated = present
        /\ present # {} =>
               /\ reloading.returned.kind = "modules"
               /\ reloading.returned.nodes = present
        /\ present = {} => reloading.returned = Undefined

\* C37 witness: a page module and a unit module were handed back while
\* another affected page had no module in the graph and the graph held
\* modules that were not affected.
C37_Witness ==
    /\ reloading.done
    /\ reloading.affectedEntryPaths = Entries
    /\ reloading.graph = GraphModules \ {PageModuleId("b")}
    /\ reloading.affectedVirtualComponentIds = {VirtualComponentId(TextA)}
    /\ reloading.returned.kind = "modules"
    /\ reloading.returned.nodes =
           {PageModuleId("a"), VirtualComponentId(TextA)}
=============================================================================
